---- MODULE Spec2Model ----
(***************************************************************************)
(* Model of CodexProvider (src/src/providers/codex-provider.ts): the two   *)
(* invocation modes invokeCodexSplitView and invokeCodexHeadless, their    *)
(* temp files, terminals, timers and the shell-execution event listener.   *)
(* Three further components have their own specification over their own   *)
(* variables: convertPathIfWsl (PathSpec), CreateSpecInputController       *)
(* (ControllerSpec) and SpecManager.getSpecList (SpecListSpec).            *)
(*                                                                         *)
(* Time is the timer clock of the single event loop.  A pending timer is a *)
(* record with the time left until it is due, and the clock only moves to  *)
(* the next instant at which a timer is due.  Date.now() is used by the    *)
(* code only to name files, so the model keeps it up to order: dateNow is  *)
(* the number of earlier instants at which the clock was read.             *)
(***************************************************************************)
EXTENDS Integers, Sequences, FiniteSets, TLC

\* Number of invocations of the provider in one run.
NumInv == 2

Inv == 1 .. NumInv

\* Longest path given to convertPathIfWsl (besides the documented example).
MaxPathLen == 6

\* Panels the controller may create, handleSubmit calls and open() calls
\* in one run.
MaxPanels == 2
MaxCalls == 2
MaxOpens == 3

\* Longest summary typed into the form.
MaxSummaryLen == 2

Panels == 1 .. MaxPanels
Calls == 1 .. MaxCalls

\* A handleSubmit call that has not been made.
NoCall == [state |-> "none", from |-> 0, ops |-> <<>>]

\* Longest directory listing given to getSpecList.
MaxEntries == 3

\* SpecManager.delete calls in one run.
MaxDeletes == 2

Deletes == 1 .. MaxDeletes

\* The spec folders of the example workspace.
SpecFolders == {"spec1", "spec2", "spec-to-delete"}

\* A delete call that has not been made.
NoDelete == [pc |-> "none", specName |-> "", error |-> "", ops |-> <<>>]

\* SteeringManager.delete calls in one run.
MaxSteeringDeletes == 2

SteeringDeletes == 1 .. MaxSteeringDeletes

\* The steering documents of the example workspace.
SteeringDocuments == {"product.md", "tech.md", "structure.md"}

\* Create events delivered to the spec-folder watcher in one run.
MaxCreateEvents == 3

CreateEvents == 1 .. MaxCreateEvents

\* Before setupSpecFolderWatcher.
NoWatcher ==
    [pc |-> "none", disposed |-> FALSE, subscribed |-> FALSE,
     timeout |-> "none", disposeWatcher |-> 0, renamed |-> 0]

\* refresh() calls of the prompts explorer in one run.
MaxRefreshes == 3

\* Delay of the timer that ends the loading state.
RefreshDelayMs == 120

\* What a delete call that has not returned has as its result.
NoResult == [success |-> FALSE, error |-> <<>>]

\* A SteeringManager.delete call that has not been made.
NoSteeringDelete ==
    [pc |-> "none", documentName |-> "", fsDelete |-> "pending",
     headless |-> "notStarted", exitCode |-> [defined |-> FALSE, value |-> 0],
     ops |-> <<>>, result |-> NoResult]

\* Program constants (milliseconds and counts).
PollIntervalMs == 100
MaxShellIntegrationChecks == 20
FallbackSettleMs == 5000
HeadlessCleanupDelayMs == 1000
SplitViewCleanupDelayMs == 30000
TERMINAL_VENV_ACTIVATION_DELAY == 800

\* Exit codes an onDidEndTerminalShellExecution event can carry:
\* number | undefined.
Undefined == [defined |-> FALSE, value |-> 0]
Code(n) == [defined |-> TRUE, value |-> n]
ExitCodes == {Code(0), Code(1), Undefined}

VARIABLES
    dateNow,                \* Date.now(): index of the current instant
    clockRead,              \* Date.now() was called at the current instant
    pc,                     \* pc[i]: where invocation i stands
    mode,                   \* mode[i]: "split" | "headless" | "none"
    promptFilePath,         \* promptFilePath[i]: <<prefix, stamp>> or <<>>
    fs,                     \* files in the scratch directory: [path, owner]
    terminal,               \* terminal[i]: "none" | "open" | "disposed"
    shellIntegration,       \* shellIntegration[i]: capability attached
    shellIntegrationChecks, \* the poll counter of invocation i
    execution,              \* execution[i]: token of executeCommand, 0 = none
    nextExecution,          \* source of fresh execution tokens
    listeners,              \* live onDidEndTerminalShellExecution listeners
    timers,                 \* pending setInterval / setTimeout timers
    resolutions,            \* resolutions[i]: values passed to resolve, in order
    sinceSendText,          \* timer time from the fallback sendText of i
                            \* to its resolve (or to now, while pending)
    sinceSetInterval,       \* timer time from setInterval of i to now, while
                            \* i polls for the capability
    interference,           \* writes / unlinks that hit another invocation's file
    trace                   \* trace[i]: the calls invocation i made, in order

\* convertPathIfWsl
VARIABLES
    platform,               \* process.platform
    filePath,               \* the argument: a sequence of characters
    wslPath,                \* [returned, value]: what the call returned
    rewritten               \* [returned, value]: what a second call, given
                            \* the returned path, returned

\* CreateSpecInputController
VARIABLES
    panel,                  \* this.panel: a panel id, 0 = undefined
    panelState,             \* panelState[p]: "none" | "live" | "disposed"
    workspaceFolder,        \* workspace.workspaceFolders?.[0] is defined
    calls,                  \* calls[c]: the c-th handleSubmit call: its state,
                            \* the panel it came from, what it did in order
    ctlTrace,               \* what open() and the cancel handler did, in order
    opens                   \* number of open() calls so far

\* SpecManager.getSpecList
VARIABLES
    specsDir,               \* what the workspace file system answers
    specList                \* [pc, value, ops]: progress and outcome of the call

\* SpecManager.delete
VARIABLES
    specManager,            \* [workspaceFolder, folders]: whether a workspace
                            \* folder is open, the spec folders on disk
    deletes                 \* deletes[d]: the d-th delete call: its argument,
                            \* where it stands, the rejection it caught,
                            \* what it did in order

\* SteeringManager.delete
VARIABLES
    steeringFiles,          \* the steering documents on disk
    steeringDeletes         \* steeringDeletes[d]: the d-th delete call: its
                            \* argument, where it stands, how its file delete
                            \* and its headless invocation ended, what it
                            \* did in order, what it returned

\* SpecManager.setupSpecFolderWatcher
VARIABLES
    watcher,                \* the watcher of one create call: whether it is
                            \* set up, the disposed flag, whether the create
                            \* handler is still subscribed, whether the
                            \* timeout is pending, how often disposeWatcher
                            \* ran, how often the terminal was renamed
    handlers                \* handlers[h]: where the handler of the h-th
                            \* create event stands

\* PromptsExplorerProvider
VARIABLES
    isLoading,              \* this.isLoading
    refreshTimers,          \* pending setTimeout callbacks of refresh, in the
                            \* order set: the time left of each
    refreshCalls,           \* number of refresh() calls so far
    overlapped,             \* some refresh() was called while the timer of
                            \* an earlier call had not fired
    lastFired,              \* isLoading at the last changeEmitter.fire()
    children,               \* what the last getChildren() call returned
    viewPending,            \* a tree-change event has been fired and the
                            \* view has not called getChildren since
    promptsRoot,            \* getPromptsRoot() is defined
    promptFiles             \* readMarkdownFiles finds prompt files

provVars == <<dateNow, clockRead, pc, mode, promptFilePath, fs, terminal, shellIntegration,
          shellIntegrationChecks, execution, nextExecution, listeners, timers,
          resolutions, sinceSendText, sinceSetInterval, interference, trace>>
pathVars == <<platform, filePath, wslPath, rewritten>>
ctlVars == <<panel, panelState, workspaceFolder, calls, ctlTrace, opens>>
listVars == <<specsDir, specList>>
delVars == <<specManager, deletes>>
steerVars == <<steeringFiles, steeringDeletes>>
watchVars == <<watcher, handlers>>
promptVars == <<isLoading, refreshTimers, refreshCalls, overlapped, lastFired,
                children, viewPending, promptsRoot, promptFiles>>

vars == <<provVars, pathVars, ctlVars, listVars, delVars, steerVars, watchVars,
          promptVars>>

\* What the actions of one component leave alone: the other components.
notProvider ==
    <<pathVars, ctlVars, listVars, delVars, steerVars, watchVars, promptVars>>
notPath ==
    <<provVars, ctlVars, listVars, delVars, steerVars, watchVars, promptVars>>
notController ==
    <<provVars, pathVars, listVars, delVars, steerVars, watchVars, promptVars>>
notSpecList ==
    <<provVars, pathVars, ctlVars, delVars, steerVars, watchVars, promptVars>>
notDelete ==
    <<provVars, pathVars, ctlVars, listVars, steerVars, watchVars, promptVars>>
notSteering ==
    <<provVars, pathVars, ctlVars, listVars, delVars, watchVars, promptVars>>
notWatcher ==
    <<provVars, pathVars, ctlVars, listVars, delVars, steerVars, promptVars>>
notPrompts ==
    <<provVars, pathVars, ctlVars, listVars, delVars, steerVars, watchVars>>

----------------------------------------------------------------------------
\* Helpers

Log(i, ops) == [trace EXCEPT ![i] = @ \o ops]

Timer(i, kind, delay) == [inv |-> i, kind |-> kind, left |-> delay]

Due(i, kind) == \E t \in timers : t.inv = i /\ t.kind = kind /\ t.left = 0

Without(i, kind) == {t \in timers : ~(t.inv = i /\ t.kind = kind)}

Count(s, op) == Cardinality({k \in 1 .. Len(s) : s[k] = op})

First(s, op) == IF \E k \in 1 .. Len(s) : s[k] = op
                THEN CHOOSE k \in 1 .. Len(s) :
                        s[k] = op /\ \A j \in 1 .. k - 1 : s[j] # op
                ELSE 0

Prefix(m) == IF m = "split" THEN "prompt" ELSE "background-prompt"

----------------------------------------------------------------------------
\* Initial states of the four components.  Each specification below starts
\* one component in every state its inputs allow and leaves the others as
\* constructed.

\* No call of convertPathIfWsl is under way.
PathIdle ==
    /\ platform = "linux"
    /\ filePath = <<>>
    /\ wslPath = [returned |-> FALSE, value |-> <<>>]
    /\ rewritten = [returned |-> FALSE, value |-> <<>>]

\* CreateSpecInputController after its constructor: no panel is held.
ControllerInit ==
    /\ panel = 0
    /\ panelState = [p \in Panels |-> "none"]
    /\ workspaceFolder = TRUE
    /\ calls = [c \in Calls |-> NoCall]
    /\ ctlTrace = <<>>
    /\ opens = 0

\* getSpecList has not been called.
SpecListIdle ==
    /\ specsDir = [workspaceFolder |-> FALSE, stat |-> FALSE,
                   createDirectory |-> "ok", readDirectory |-> FALSE,
                   entries |-> <<>>]
    /\ specList = [pc |-> "idle", value |-> <<>>, ops |-> <<>>]

\* CodexProvider after its constructor.
ProviderInit ==
    /\ dateNow = 0
    /\ clockRead = FALSE
    /\ pc = [i \in Inv |-> "idle"]
    /\ mode = [i \in Inv |-> "none"]
    /\ promptFilePath = [i \in Inv |-> <<>>]
    /\ fs = {}
    /\ terminal = [i \in Inv |-> "none"]
    /\ shellIntegration = [i \in Inv |-> FALSE]
    /\ shellIntegrationChecks = [i \in Inv |-> 0]
    /\ execution = [i \in Inv |-> 0]
    /\ nextExecution = 1
    /\ listeners = {}
    /\ timers = {}
    /\ resolutions = [i \in Inv |-> <<>>]
    /\ sinceSendText = [i \in Inv |-> 0]
    /\ sinceSetInterval = [i \in Inv |-> 0]
    /\ interference = {}
    /\ trace = [i \in Inv |-> <<>>]

\* SpecManager.delete has not been called; the example specs are on disk.
DeleteIdle ==
    /\ specManager = [workspaceFolder |-> TRUE, folders |-> SpecFolders]
    /\ deletes = [d \in Deletes |-> NoDelete]

\* SteeringManager.delete has not been called; the documents are on disk.
SteeringIdle ==
    /\ steeringFiles = SteeringDocuments
    /\ steeringDeletes = [d \in SteeringDeletes |-> NoSteeringDelete]

\* setupSpecFolderWatcher has not been called.
WatcherIdle ==
    /\ watcher = NoWatcher
    /\ handlers = [h \in CreateEvents |-> "none"]

\* PromptsExplorerProvider after its constructor; the view has not asked
\* for its children yet.
PromptsInit ==
    /\ isLoading = FALSE
    /\ refreshTimers = <<>>
    /\ refreshCalls = 0
    /\ overlapped = FALSE
    /\ lastFired = "none"
    /\ children = "none"
    /\ viewPending = FALSE
    /\ promptsRoot = TRUE
    /\ promptFiles = TRUE

\* The components that take part in no specification of their own start
\* as constructed.
OthersIdle == DeleteIdle /\ SteeringIdle /\ WatcherIdle /\ PromptsInit

Init ==
    /\ ProviderInit /\ PathIdle /\ ControllerInit /\ SpecListIdle
    /\ OthersIdle

----------------------------------------------------------------------------
\* createTempFile

\* `${prefix}-${Date.now()}.md` under the scratch directory.  The scratch
\* directory is the same for all invocations and convertPathIfWsl maps
\* distinct names to distinct names, so a path is identified by its prefix
\* and its time stamp.  Where the converted path is not one the host file
\* system knows, the unlink fails: Unlink below may fail at any attempt.
TempFileName(prefix) == <<prefix, dateNow>>

\* promises.writeFile(tempFile, content): creates or replaces the file.
WriteFile(i) ==
    LET p == promptFilePath[i] IN
    /\ fs' = {f \in fs : f.path # p} \cup {[path |-> p, owner |-> i]}
    /\ interference' = interference \cup
          {[kind |-> "overwrite", by |-> i, of |-> f.owner] :
              f \in {g \in fs : g.path = p /\ g.owner # i}}

\* promises.unlink(promptFilePath): one attempt; it succeeds only if the
\* file is there, and may fail for any reason of the file system.
Unlink(i, ok) ==
    LET p == promptFilePath[i] IN
    /\ ok => \E f \in fs : f.path = p
    /\ fs' = IF ok THEN {f \in fs : f.path # p} ELSE fs
    /\ interference' = IF ok
          THEN interference \cup
                 {[kind |-> "unlink", by |-> i, of |-> f.owner] :
                     f \in {g \in fs : g.path = p /\ g.owner # i}}
          ELSE interference

\* The trace entry of an unlink whose promise rejected.
Rejected(ok) == IF ok THEN <<>> ELSE <<"unlink:rejected">>

\* Faulty variant: the catch block of the split view swallows the error.
AbortOps_Swallowed(i) ==
    IF mode[i] = "split"
    THEN <<"appendLine:error", "showErrorMessage">>
    ELSE <<"throw">>

\* What the caller of a failed invocation sees: invokeCodexSplitView
\* catches, logs, shows the error and rethrows; invokeCodexHeadless rejects.
AbortOps(i) ==
    IF mode[i] = "split"
    THEN <<"appendLine:error", "showErrorMessage", "throw">>
    ELSE <<"throw">>

\* An invocation begins: the call runs up to `await createDirectory`.
\* Invocations are numbered in the order in which they are made.
Start(i, m) ==
    /\ UNCHANGED notProvider
    /\ pc[i] = "idle"
    /\ \A j \in Inv : j < i => pc[j] # "idle"
    /\ pc' = [pc EXCEPT ![i] = "createDirectory"]
    /\ mode' = [mode EXCEPT ![i] = m]
    /\ UNCHANGED <<dateNow, clockRead, promptFilePath, fs, terminal, shellIntegration,
                   shellIntegrationChecks, execution, nextExecution,
                   listeners, timers, resolutions, sinceSendText, sinceSetInterval,
                   interference, trace>>

\* createDirectory resolved: the name is built from the clock and
\* writeFile is started.
CreateDirectoryOk(i) ==
    /\ UNCHANGED notProvider
    /\ pc[i] = "createDirectory"
    /\ promptFilePath' = [promptFilePath EXCEPT
                             ![i] = TempFileName(Prefix(mode[i]))]
    /\ clockRead' = TRUE
    /\ pc' = [pc EXCEPT ![i] = "writeFile"]
    /\ UNCHANGED <<dateNow, mode, fs, terminal, shellIntegration,
                   shellIntegrationChecks, execution, nextExecution,
                   listeners, timers, resolutions, sinceSendText, sinceSetInterval,
                   interference, trace>>

CreateDirectoryFails(i) ==
    /\ UNCHANGED notProvider
    /\ pc[i] = "createDirectory"
    /\ pc' = [pc EXCEPT ![i] = "failed"]
    /\ trace' = Log(i, AbortOps(i))
    /\ UNCHANGED <<dateNow, clockRead, mode, promptFilePath, fs, terminal, shellIntegration,
                   shellIntegrationChecks, execution, nextExecution,
                   listeners, timers, resolutions, sinceSendText, sinceSetInterval,
                   interference>>

WriteFileFails(i) ==
    /\ UNCHANGED notProvider
    /\ pc[i] = "writeFile"
    /\ pc' = [pc EXCEPT ![i] = "failed"]
    /\ trace' = Log(i, AbortOps(i))
    /\ UNCHANGED <<dateNow, clockRead, mode, promptFilePath, fs, terminal, shellIntegration,
                   shellIntegrationChecks, execution, nextExecution,
                   listeners, timers, resolutions, sinceSendText, sinceSetInterval,
                   interference>>

\* writeFile resolved, createTempFile returned, window.createTerminal threw.
CreateTerminalThrows(i) ==
    /\ UNCHANGED notProvider
    /\ pc[i] = "writeFile"
    /\ WriteFile(i)
    /\ pc' = [pc EXCEPT ![i] = "failed"]
    /\ trace' = Log(i, <<"writeFile">> \o AbortOps(i))
    /\ UNCHANGED <<dateNow, clockRead, mode, promptFilePath, terminal, shellIntegration,
                   shellIntegrationChecks, execution, nextExecution,
                   listeners, timers, resolutions, sinceSendText, sinceSetInterval>>

----------------------------------------------------------------------------
\* invokeCodexSplitView

\* Faulty variant: the removal is scheduled before the terminal exists.
SplitViewOps_CleanupFirst ==
    <<"writeFile", "setTimeout:unlink", "createTerminal", "show",
      "setTimeout:sendText", "return">>

\* What the try block does after createTempFile, in order.
SplitViewOps ==
    <<"writeFile", "createTerminal", "show", "setTimeout:sendText",
      "setTimeout:unlink", "return">>

\* setTimeout(() => terminal.sendText(command, true), delay)
SplitViewSendTextTimer(i) ==
    Timer(i, "sendText", TERMINAL_VENV_ACTIVATION_DELAY)

\* Faulty variant: the temp file is removed without a grace period.
SplitViewCleanupTimer_Immediate(i) == Timer(i, "unlink", 0)

\* setTimeout(async () => { unlink ... }, 30_000)
SplitViewCleanupTimer(i) == Timer(i, "unlink", SplitViewCleanupDelayMs)

\* writeFile resolved; the rest of the try block runs to `return terminal`.
invokeCodexSplitView(i) ==
    /\ UNCHANGED notProvider
    /\ pc[i] = "writeFile"
    /\ mode[i] = "split"
    /\ WriteFile(i)
    /\ terminal' = [terminal EXCEPT ![i] = "open"]
    /\ timers' = timers \cup
          {SplitViewSendTextTimer(i), SplitViewCleanupTimer(i)}
    /\ pc' = [pc EXCEPT ![i] = "returned"]
    /\ trace' = Log(i, SplitViewOps)
    /\ UNCHANGED <<dateNow, clockRead, mode, promptFilePath, shellIntegration,
                   shellIntegrationChecks, execution, nextExecution,
                   listeners, resolutions, sinceSendText, sinceSetInterval>>

\* The sendText timer fires: terminal.sendText(command, true).
SplitViewSendText(i) ==
    /\ UNCHANGED notProvider
    /\ Due(i, "sendText")
    /\ timers' = Without(i, "sendText")
    /\ trace' = Log(i, <<"sendText">>)
    /\ UNCHANGED <<dateNow, clockRead, pc, mode, promptFilePath, fs, terminal,
                   shellIntegration, shellIntegrationChecks, execution,
                   nextExecution, listeners, resolutions, sinceSendText, sinceSetInterval,
                   interference>>

\* The 30 s cleanup timer of the split view.
SplitViewCleanup(i) ==
    /\ UNCHANGED notProvider
    /\ Due(i, "unlink")
    /\ \E ok \in BOOLEAN :
          /\ Unlink(i, ok)
          /\ trace' = Log(i, <<"unlink">> \o Rejected(ok) \o
                <<IF ok THEN "appendLine:cleaned" ELSE "appendLine:failed">>)
    /\ timers' = Without(i, "unlink")
    /\ pc' = [pc EXCEPT ![i] = "done"]
    /\ UNCHANGED <<dateNow, clockRead, mode, promptFilePath, terminal, shellIntegration,
                   shellIntegrationChecks, execution, nextExecution,
                   listeners, resolutions, sinceSendText, sinceSetInterval>>

----------------------------------------------------------------------------
\* invokeCodexHeadless

HeadlessOps == <<"writeFile", "createTerminal", "setInterval">>

\* setInterval(..., 100): the next run of the poll callback.
PollTimer(i) == Timer(i, "poll", PollIntervalMs)

\* writeFile resolved; the hidden terminal is created and the promise
\* executor starts the poll interval.
invokeCodexHeadless(i) ==
    /\ UNCHANGED notProvider
    /\ pc[i] = "writeFile"
    /\ mode[i] = "headless"
    /\ WriteFile(i)
    /\ terminal' = [terminal EXCEPT ![i] = "open"]
    /\ timers' = timers \cup {PollTimer(i)}
    /\ pc' = [pc EXCEPT ![i] = "waitingForCapability"]
    /\ trace' = Log(i, HeadlessOps)
    /\ UNCHANGED <<dateNow, clockRead, mode, promptFilePath, shellIntegration,
                   shellIntegrationChecks, execution, nextExecution,
                   listeners, resolutions, sinceSendText, sinceSetInterval>>

\* The environment attaches terminal.shellIntegration to a live terminal.
AttachShellIntegration(i) ==
    /\ UNCHANGED notProvider
    /\ mode[i] = "headless"
    /\ terminal[i] = "open"
    /\ ~shellIntegration[i]
    /\ shellIntegration' = [shellIntegration EXCEPT ![i] = TRUE]
    /\ UNCHANGED <<dateNow, clockRead, pc, mode, promptFilePath, fs, terminal,
                   shellIntegrationChecks, execution, nextExecution,
                   listeners, timers, resolutions, sinceSendText, sinceSetInterval,
                   interference, trace>>

\* Faulty variant: the fallback is taken at the 20th poll already.
ChecksExhausted_AtLimit(n) == n >= MaxShellIntegrationChecks

\* `else if (shellIntegrationChecks > 20)`
ChecksExhausted(n) == n > MaxShellIntegrationChecks

\* Timers left by the notification branch when it forgets clearInterval.
NotificationBranchTimers_NoClear(i) == Without(i, "poll") \cup {PollTimer(i)}

\* Timers left by the notification branch: clearInterval.
NotificationBranchTimers(i) == Without(i, "poll")

\* Timers left by a poll that takes neither branch: the interval runs on.
IdlePollTimers(i) == Without(i, "poll") \cup {PollTimer(i)}

\* Faulty variant: the settle timer is armed with the cleanup delay.
FallbackTimer_Short(i) == Timer(i, "fallback", HeadlessCleanupDelayMs)

\* setTimeout(..., 5000) of the fallback branch.
FallbackTimer(i) == Timer(i, "fallback", FallbackSettleMs)

\* Faulty variant: the fallback branch forgets clearInterval.
FallbackBranchTimers_NoClear(i) == IdlePollTimers(i) \cup {FallbackTimer(i)}

\* Timers left by the fallback branch: clearInterval, then setTimeout.
FallbackBranchTimers(i) == Without(i, "poll") \cup {FallbackTimer(i)}

\* One run of the setInterval callback checkShellIntegration.  The counter
\* is read only when the capability is absent; once the capability has been
\* seen the callback never reads it again, and the model forgets its value.
\* The stopwatch sinceSetInterval stops with the interval.
checkShellIntegration(i) ==
    /\ UNCHANGED notProvider
    /\ Due(i, "poll")
    /\ IF shellIntegration[i]
       THEN /\ shellIntegrationChecks' =
                  [shellIntegrationChecks EXCEPT ![i] = 0]
            /\ timers' = NotificationBranchTimers(i)
            /\ execution' = [execution EXCEPT ![i] = nextExecution]
            /\ nextExecution' = nextExecution + 1
            /\ listeners' = listeners \cup
                  {[inv |-> i, execution |-> nextExecution]}
            /\ pc' = [pc EXCEPT ![i] = "executing"]
            /\ trace' = Log(i, <<"clearInterval", "executeCommand",
                                 "onDidEndTerminalShellExecution">>)
            /\ sinceSetInterval' = [sinceSetInterval EXCEPT ![i] = 0]
            /\ UNCHANGED sinceSendText
       ELSE IF ChecksExhausted(shellIntegrationChecks[i] + 1)
       THEN /\ shellIntegrationChecks' =
                  [shellIntegrationChecks EXCEPT ![i] = @ + 1]
            /\ timers' = FallbackBranchTimers(i)
            /\ sinceSendText' = [sinceSendText EXCEPT ![i] = 0]
            /\ sinceSetInterval' = [sinceSetInterval EXCEPT ![i] = 0]
            /\ pc' = [pc EXCEPT ![i] = "fallbackSent"]
            /\ trace' = Log(i, <<"clearInterval", "appendLine:fallback",
                                 "sendText", "setTimeout:fallback">>)
            /\ UNCHANGED <<execution, nextExecution, listeners>>
       ELSE /\ shellIntegrationChecks' =
                  [shellIntegrationChecks EXCEPT ![i] = @ + 1]
            /\ timers' = IdlePollTimers(i)
            /\ UNCHANGED <<pc, execution, nextExecution, listeners,
                           sinceSendText, sinceSetInterval, trace>>
    /\ UNCHANGED <<dateNow, clockRead, mode, promptFilePath, fs, terminal,
                   shellIntegration, resolutions, interference>>

\* Faulty variant: the listener does not filter the events.
ListenerMatches_Unfiltered(l, t, e) == TRUE

\* `event.terminal === terminal && event.execution === execution`
ListenerMatches(l, t, e) == t = l.inv /\ e = l.execution

\* Faulty variant: the listener is never disposed.
DisposeListeners_Forgotten(hit) == listeners

\* disposable.dispose(): the listeners that stay subscribed.
DisposeListeners(hit) == listeners \ hit

\* Faulty variant: an absent exit code is reported as 0.
CompletionResult_Coerced(c) ==
    [exitCode |-> IF c = Undefined THEN Code(0) ELSE c, output |-> Undefined]

\* resolve({ exitCode: event.exitCode, output: undefined })
CompletionResult(c) == [exitCode |-> c, output |-> Undefined]

\* What a matching listener does, in order.
ListenerOps(c) ==
    <<"disposable.dispose">>
    \o (IF c # Code(0)
        THEN <<"appendLine:exitCode", "appendLine:command">> ELSE <<>>)
    \o <<"resolve", "setTimeout:cleanup">>

\* The environment fires onDidEndTerminalShellExecution with terminal t,
\* execution e (0: an execution no invocation started) and exit code c;
\* every subscribed listener runs.
EndTerminalShellExecution(t, e, c) ==
    LET hit == {l \in listeners : ListenerMatches(l, t, e)}
        hitInv == {l.inv : l \in hit}
    IN
    /\ terminal[t] = "open"
    /\ listeners' = DisposeListeners(hit)
    /\ resolutions' = [i \in Inv |->
          IF i \in hitInv THEN Append(resolutions[i], CompletionResult(c))
          ELSE resolutions[i]]
    /\ timers' = timers \cup
          {Timer(i, "cleanup", HeadlessCleanupDelayMs) : i \in hitInv}
    /\ pc' = [i \in Inv |-> IF i \in hitInv THEN "resolved" ELSE pc[i]]
    /\ trace' = [i \in Inv |->
          IF i \in hitInv THEN trace[i] \o ListenerOps(c) ELSE trace[i]]
    /\ UNCHANGED <<dateNow, clockRead, mode, promptFilePath, fs, terminal,
                   shellIntegration, shellIntegrationChecks, execution,
                   nextExecution, sinceSendText, sinceSetInterval, interference>>
    /\ UNCHANGED notProvider

\* The 1 s cleanup timer of the notification branch.
NotificationCleanup(i) ==
    /\ UNCHANGED notProvider
    /\ Due(i, "cleanup")
    /\ timers' = Without(i, "cleanup")
    /\ terminal' = [terminal EXCEPT ![i] = "disposed"]
    /\ \E ok \in BOOLEAN :
          /\ Unlink(i, ok)
          /\ trace' = Log(i, <<"terminal.dispose", "unlink">>
                \o Rejected(ok) \o
                <<IF ok THEN "appendLine:cleaned" ELSE "appendLine:failed">>)
    /\ pc' = [pc EXCEPT ![i] = "done"]
    /\ UNCHANGED <<dateNow, clockRead, mode, promptFilePath, shellIntegration,
                   shellIntegrationChecks, execution, nextExecution,
                   listeners, resolutions, sinceSendText, sinceSetInterval>>

\* Faulty variant: the terminal is disposed before the promise resolves.
FallbackOps_DisposeFirst == <<"terminal.dispose", "resolve", "unlink">>

\* What the fallback timer callback does, in order.
FallbackOps == <<"resolve", "terminal.dispose", "unlink">>

\* The 5 s timer of the fallback branch.
FallbackSettled(i) ==
    /\ UNCHANGED notProvider
    /\ Due(i, "fallback")
    /\ timers' = Without(i, "fallback")
    /\ resolutions' = [resolutions EXCEPT
                          ![i] = Append(@, [exitCode |-> Undefined])]
    /\ terminal' = [terminal EXCEPT ![i] = "disposed"]
    /\ \E ok \in BOOLEAN :
          /\ Unlink(i, ok)
          /\ trace' = Log(i, FallbackOps \o Rejected(ok))
    /\ pc' = [pc EXCEPT ![i] = "done"]
    /\ UNCHANGED <<dateNow, clockRead, mode, promptFilePath, shellIntegration,
                   shellIntegrationChecks, execution, nextExecution,
                   listeners, sinceSendText, sinceSetInterval>>

----------------------------------------------------------------------------
\* The timer clock: when no timer is due, it moves to the next due instant.
NextDue == CHOOSE d \in {t.left : t \in timers} :
              \A t \in timers : d <= t.left

AdvanceTime ==
    /\ UNCHANGED notProvider
    /\ timers # {}
    /\ \A t \in timers : t.left > 0
    /\ timers' = {[t EXCEPT !.left = @ - NextDue] : t \in timers}
    /\ dateNow' = IF clockRead THEN dateNow + 1 ELSE dateNow
    /\ clockRead' = FALSE
    /\ sinceSendText' = [i \in Inv |->
          IF pc[i] = "fallbackSent" THEN sinceSendText[i] + NextDue
          ELSE sinceSendText[i]]
    /\ sinceSetInterval' = [i \in Inv |->
          IF pc[i] = "waitingForCapability"
          THEN sinceSetInterval[i] + NextDue
          ELSE sinceSetInterval[i]]
    /\ UNCHANGED <<pc, mode, promptFilePath, fs, terminal, shellIntegration,
                   shellIntegrationChecks, execution, nextExecution,
                   listeners, resolutions, interference, trace>>

Modes == {"split", "headless"}

Next ==
    \/ \E i \in Inv, m \in Modes : Start(i, m)
    \/ \E i \in Inv : CreateDirectoryOk(i)
    \/ \E i \in Inv : CreateDirectoryFails(i)
    \/ \E i \in Inv : WriteFileFails(i)
    \/ \E i \in Inv : CreateTerminalThrows(i)
    \/ \E i \in Inv : invokeCodexSplitView(i)
    \/ \E i \in Inv : SplitViewSendText(i)
    \/ \E i \in Inv : SplitViewCleanup(i)
    \/ \E i \in Inv : invokeCodexHeadless(i)
    \/ \E i \in Inv : AttachShellIntegration(i)
    \/ \E i \in Inv : checkShellIntegration(i)
    \/ \E t \in Inv, e \in 0 .. nextExecution - 1, c \in ExitCodes :
          EndTerminalShellExecution(t, e, c)
    \/ \E i \in Inv : NotificationCleanup(i)
    \/ \E i \in Inv : FallbackSettled(i)
    \/ AdvanceTime

Spec == Init /\ [][Next]_vars

\* Timers that are due fire, the clock moves on, and pending I/O
\* (createDirectory, writeFile) completes one way or the other.  Nothing
\* obliges the environment to attach the capability or to deliver an event.
Fairness ==
    /\ WF_vars(AdvanceTime)
    /\ \A i \in Inv :
          /\ WF_vars(CreateDirectoryOk(i) \/ CreateDirectoryFails(i))
          /\ WF_vars(WriteFileFails(i) \/ CreateTerminalThrows(i)
                     \/ invokeCodexSplitView(i) \/ invokeCodexHeadless(i))
          /\ WF_vars(SplitViewSendText(i))
          /\ WF_vars(SplitViewCleanup(i))
          /\ WF_vars(checkShellIntegration(i))
          /\ WF_vars(NotificationCleanup(i))
          /\ WF_vars(FallbackSettled(i))

FairSpec == Spec /\ Fairness

TypeOK ==
    /\ dateNow \in 0 .. NumInv
    /\ clockRead \in BOOLEAN
    /\ sinceSendText \in [Inv -> Nat]
    /\ sinceSetInterval \in [Inv -> Nat]
    /\ pc \in [Inv -> {"idle", "createDirectory", "writeFile", "failed",
                       "returned", "waitingForCapability", "executing",
                       "fallbackSent", "resolved", "done"}]
    /\ mode \in [Inv -> Modes \cup {"none"}]
    /\ terminal \in [Inv -> {"none", "open", "disposed"}]
    /\ shellIntegration \in [Inv -> BOOLEAN]
    /\ shellIntegrationChecks \in [Inv -> Nat]
    /\ execution \in [Inv -> Nat]
    /\ nextExecution \in Nat

----------------------------------------------------------------------------
\* convertPathIfWsl.  A path is a sequence of one-character strings.

UpperCase == <<"A", "B", "C", "D", "E", "F", "G", "H", "I", "J", "K", "L", "M",
               "N", "O", "P", "Q", "R", "S", "T", "U", "V", "W", "X", "Y", "Z">>
LowerCase == <<"a", "b", "c", "d", "e", "f", "g", "h", "i", "j", "k", "l", "m",
               "n", "o", "p", "q", "r", "s", "t", "u", "v", "w", "x", "y", "z">>

\* [A-Za-z]
IsLetter(c) ==
    \E k \in DOMAIN UpperCase : c = UpperCase[k] \/ c = LowerCase[k]

\* drive.toLowerCase()
toLowerCase(c) ==
    IF \E k \in DOMAIN UpperCase : c = UpperCase[k]
    THEN LowerCase[CHOOSE k \in DOMAIN UpperCase : c = UpperCase[k]]
    ELSE c

\* filePath.match(/^[A-Za-z]:\\/)
MatchesWindowsPath(p) ==
    /\ Len(p) >= 3
    /\ IsLetter(p[1])
    /\ p[2] = ":"
    /\ p[3] = "\\"

\* Faulty variant: the pattern has no g flag, only the first backslash
\* is replaced.
ReplaceBackslashes_FirstOnly(p) ==
    [k \in 1 .. Len(p) |->
        IF p[k] = "\\" /\ \A j \in 1 .. k - 1 : p[j] # "\\"
        THEN "/" ELSE p[k]]

\* filePath.replace(/\\/g, "/")
ReplaceBackslashes(p) ==
    [k \in 1 .. Len(p) |-> IF p[k] = "\\" THEN "/" ELSE p[k]]

\* wslPath.replace(/^([A-Za-z]):/, (_match, drive) => `/mnt/${drive.toLowerCase()}`)
ReplaceDrive(p) ==
    IF Len(p) >= 2 /\ IsLetter(p[1]) /\ p[2] = ":"
    THEN <<"/", "m", "n", "t", "/", toLowerCase(p[1])>> \o SubSeq(p, 3, Len(p))
    ELSE p

\* Faulty variant: the drive prefix is cut off and the rest is kept.
convertPathIfWsl_DriveCut(plat, p) ==
    IF plat = "win32" /\ MatchesWindowsPath(p)
    THEN SubSeq(p, 4, Len(p))
    ELSE p

convertPathIfWsl(plat, p) ==
    IF plat = "win32" /\ MatchesWindowsPath(p)
    THEN ReplaceDrive(ReplaceBackslashes(p))
    ELSE p

\* C:\Users\Test\file.txt and /mnt/c/Users/Test/file.txt
ExamplePath ==
    <<"C", ":", "\\", "U", "s", "e", "r", "s", "\\", "T", "e", "s", "t",
      "\\", "f", "i", "l", "e", ".", "t", "x", "t">>
ExampleWslPath ==
    <<"/", "m", "n", "t", "/", "c", "/", "U", "s", "e", "r", "s", "/",
      "T", "e", "s", "t", "/", "f", "i", "l", "e", ".", "t", "x", "t">>

\* Characters the enumerated paths are made of: two letters, the drive
\* colon and both separators.
PathChars == {"C", "z", ":", "\\", "/"}

Paths ==
    UNION {[1 .. n -> PathChars] : n \in 0 .. MaxPathLen} \cup {ExamplePath}

Platforms == {"win32", "linux"}

PathInit ==
    /\ platform \in Platforms
    /\ filePath \in Paths
    /\ wslPath = [returned |-> FALSE, value |-> <<>>]
    /\ rewritten = [returned |-> FALSE, value |-> <<>>]
    /\ ProviderInit /\ ControllerInit /\ SpecListIdle /\ OthersIdle

\* One call of convertPathIfWsl({ filePath }) returns.
ConvertPath ==
    /\ ~wslPath.returned
    /\ wslPath' = [returned |-> TRUE,
                   value |-> convertPathIfWsl(platform, filePath)]
    /\ UNCHANGED <<platform, filePath, rewritten>>
    /\ UNCHANGED notPath

\* The returned path is given to convertPathIfWsl once more.
ConvertPathAgain ==
    /\ wslPath.returned
    /\ ~rewritten.returned
    /\ rewritten' = [returned |-> TRUE,
                     value |-> convertPathIfWsl(platform, wslPath.value)]
    /\ UNCHANGED <<platform, filePath, wslPath>>
    /\ UNCHANGED notPath

PathNext ==
    \/ ConvertPath
    \/ ConvertPathAgain

PathSpec == PathInit /\ [][PathNext]_vars

\* C16: convertPathIfWsl returns the reference mapping: on win32 a path
\* that starts with a letter, a colon and a backslash becomes /mnt/, the
\* lower-cased letter, and the rest of the path after the colon with every
\* backslash turned into a slash; any other path, and every path on
\* another platform, is returned as it was given.  The documented example
\* maps to /mnt/c/Users/Test/file.txt on win32.
C16_ConvertPathReference ==
    wslPath.returned =>
        /\ IF /\ platform = "win32"
              /\ Len(filePath) >= 3
              /\ IsLetter(filePath[1])
              /\ filePath[2] = ":"
              /\ filePath[3] = "\\"
           THEN /\ Len(wslPath.value) = Len(filePath) + 4
                /\ SubSeq(wslPath.value, 1, 5) = <<"/", "m", "n", "t", "/">>
                /\ wslPath.value[6] = toLowerCase(filePath[1])
                /\ \A k \in 3 .. Len(filePath) :
                      wslPath.value[k + 4] =
                          IF filePath[k] = "\\" THEN "/" ELSE filePath[k]
           ELSE wslPath.value = filePath
        /\ filePath = ExamplePath =>
              wslPath.value = IF platform = "win32"
                              THEN ExampleWslPath ELSE ExamplePath

\* The documented example, with its three backslashes, was converted on
\* win32.
C16_Witness ==
    /\ wslPath.returned
    /\ platform = "win32"
    /\ filePath = ExamplePath
    /\ wslPath.value = ExampleWslPath

\* C29: a second call of convertPathIfWsl, given what the first returned,
\* returns it unchanged, on both platforms and for every path.
C29_ConvertPathIdempotent ==
    rewritten.returned => rewritten.value = wslPath.value

\* A Windows path was adapted on win32, and the adapted path went through
\* the function again.
C29_Witness ==
    /\ rewritten.returned
    /\ platform = "win32"
    /\ MatchesWindowsPath(filePath)
    /\ Len(filePath) > 3
    /\ wslPath.value # filePath

----------------------------------------------------------------------------
\* CreateSpecInputController.  The controller runs on the single thread of
\* the extension host: a handler runs without interruption up to its next
\* await.  workspace.workspaceFolders, the panel's close button and the
\* messages of the webview belong to the environment.

\* One call made by the controller: window and output-channel calls have
\* panel 0, calls outside handleSubmit have call 0.
Did(op, p, c) == [op |-> op, panel |-> p, call |-> c]

\* data.summary: string | undefined, as a sequence of characters.
NoSummary == [defined |-> FALSE, value |-> <<>>]
Summary(s) == [defined |-> TRUE, value |-> s]

WhiteSpace == {" ", "\t", "\n"}
SummaryChars == {" ", "\t", "a"}
Summaries ==
    {NoSummary} \cup
    {Summary(s) : s \in UNION {[1 .. n -> SummaryChars] : n \in 0 .. MaxSummaryLen}}

RECURSIVE trimStart(_)
trimStart(s) ==
    IF s # <<>> /\ Head(s) \in WhiteSpace THEN trimStart(Tail(s)) ELSE s

RECURSIVE trimEnd(_)
trimEnd(s) ==
    IF s # <<>> /\ s[Len(s)] \in WhiteSpace
    THEN trimEnd(SubSeq(s, 1, Len(s) - 1))
    ELSE s

\* Faulty variant: the summary is taken as typed.
trim_Untrimmed(s) == s

\* String.prototype.trim
trim(s) == trimEnd(trimStart(s))

\* data.summary?.trim()
sanitizedSummary(d) == IF d.defined THEN Summary(trim(d.value)) ELSE NoSummary

\* !sanitizedSummary
Falsy(d) == ~d.defined \/ d.value = <<>>

\* The id the next created panel gets, and the slot of the next call.
FreshPanel ==
    CHOOSE p \in Panels :
        panelState[p] = "none" /\ \A q \in Panels : q < p => panelState[q] # "none"
NextCall ==
    CHOOSE c \in Calls :
        calls[c].state = "none" /\ \A d \in Calls : d < c => calls[d].state # "none"

\* createPanel: the first createWebviewPanel succeeds, or it throws and the
\* fallback succeeds, or both throw and undefined is returned.
CreatePanelOutcomes == {"modal", "fallback", "undefined"}

createPanelOps(outcome, p) ==
    CASE outcome = "modal" ->
            <<Did("createWebviewPanel", p, 0)>>
      [] outcome = "fallback" ->
            <<Did("createWebviewPanel:throw", 0, 0),
              Did("appendLine:Failed to open modal panel", 0, 0),
              Did("createWebviewPanel", p, 0)>>
      [] outcome = "undefined" ->
            <<Did("createWebviewPanel:throw", 0, 0),
              Did("appendLine:Failed to open modal panel", 0, 0),
              Did("createWebviewPanel:throw", 0, 0),
              Did("appendLine:Fallback panel creation failed", 0, 0)>>

\* Faulty variant: the dispose listener leaves this.panel as it is.
OnDidDispose_Stale(p) == panel

\* panel.onDidDispose(() => { this.panel = undefined; }): the value of
\* this.panel after the dispose event of panel p.
OnDidDispose(p) == 0

\* Panel p is disposed (by the code, or closed by the user); its dispose
\* event is delivered to the listener in the same step.
Dispose(p) ==
    /\ panelState' = [panelState EXCEPT ![p] = "disposed"]
    /\ panel' = OnDidDispose(p)

open ==
    /\ opens < MaxOpens
    /\ opens' = opens + 1
    /\ IF panel # 0
       THEN /\ ctlTrace' = ctlTrace \o
                  <<Did("reveal", panel, 0), Did("post:focus", panel, 0)>>
            /\ UNCHANGED <<panel, panelState>>
       ELSE IF ~workspaceFolder
       THEN /\ ctlTrace' = Append(ctlTrace,
                  Did("showErrorMessage:No workspace folder open", 0, 0))
            /\ UNCHANGED <<panel, panelState>>
       ELSE /\ \E p \in Panels : panelState[p] = "none"
            /\ \E outcome \in CreatePanelOutcomes :
                  IF outcome = "undefined"
                  THEN /\ ctlTrace' = ctlTrace \o createPanelOps(outcome, 0) \o
                             <<Did("showErrorMessage:Unable to open Create Spec dialog", 0, 0)>>
                       /\ UNCHANGED <<panel, panelState>>
                  ELSE /\ panel' = FreshPanel
                       /\ panelState' = [panelState EXCEPT ![FreshPanel] = "live"]
                       /\ ctlTrace' = ctlTrace \o createPanelOps(outcome, FreshPanel) \o
                             <<Did("registerPanelListeners", FreshPanel, 0),
                               Did("html", FreshPanel, 0),
                               Did("post:init", FreshPanel, 0)>>
    /\ UNCHANGED <<workspaceFolder, calls>>
    /\ UNCHANGED notController

\* The catch block of handleSubmit, run while this.panel is as it is now.
CatchOps(c) ==
    IF panel # 0
    THEN <<Did("appendLine:Failed to submit spec request", 0, c),
           Did("post:submit:error", panel, c),
           Did("showErrorMessage:Failed to create spec prompt", 0, c)>>
    ELSE <<Did("appendLine:Failed to submit spec request", 0, c),
           Did("TypeError", 0, c)>>

\* handleSubmit call c does ops and is then in state how.
CallDoes(c, how, ops) ==
    [calls EXCEPT ![c].state = how, ![c].ops = @ \o ops]

\* The webview of live panel p sends 'create-spec/submit' with summary d:
\* handleSubmit runs up to its await of sendPromptToChat.
SubmitMessage(p, d) ==
    LET c == NextCall
        call(how, ops) == [calls EXCEPT
                              ![c] = [state |-> how, from |-> p, ops |-> ops]]
    IN
    /\ panelState[p] = "live"
    /\ \E k \in Calls : calls[k].state = "none"
    /\ IF panel = 0
       THEN calls' = call("done", <<>>)
       ELSE IF ~workspaceFolder
       THEN calls' = call("done",
               <<Did("showErrorMessage:No workspace folder open", 0, c)>>)
       ELSE IF Falsy(sanitizedSummary(d))
       THEN calls' = call("done",
               <<Did("post:submit:error:Summary is required.", panel, c)>>)
       ELSE \E rendered \in BOOLEAN :
              IF rendered
              THEN calls' = call("awaiting",
                      <<Did("renderPrompt", 0, c),
                        Did("sendPromptToChat", 0, c)>>)
              ELSE calls' = call("done",
                      <<Did("renderPrompt", 0, c)>> \o CatchOps(c))
    /\ UNCHANGED <<panel, panelState, workspaceFolder, ctlTrace, opens>>
    /\ UNCHANGED notController

\* sendPromptToChat resolved: the rest of the try block runs.
SendResolved(c) ==
    /\ calls[c].state = "awaiting"
    /\ IF panel # 0
       THEN /\ calls' = CallDoes(c, "done",
                  <<Did("showAutoDismissNotification", 0, c),
                    Did("post:submit:success", panel, c),
                    Did("dispose", panel, c)>>)
            /\ Dispose(panel)
       ELSE /\ calls' = CallDoes(c, "threw",
                  <<Did("showAutoDismissNotification", 0, c)>> \o CatchOps(c))
            /\ UNCHANGED <<panel, panelState>>
    /\ UNCHANGED <<workspaceFolder, ctlTrace, opens>>
    /\ UNCHANGED notController

\* sendPromptToChat rejected: the catch block runs.
SendRejected(c) ==
    /\ calls[c].state = "awaiting"
    /\ calls' = CallDoes(c, IF panel # 0 THEN "done" ELSE "threw", CatchOps(c))
    /\ UNCHANGED <<panel, panelState, workspaceFolder, ctlTrace, opens>>
    /\ UNCHANGED notController

\* The webview of live panel p sends 'create-spec/cancel'.
CancelMessage(p) ==
    /\ panelState[p] = "live"
    /\ ctlTrace' = Append(ctlTrace, Did("dispose", p, 0))
    /\ Dispose(p)
    /\ UNCHANGED <<workspaceFolder, calls, opens>>
    /\ UNCHANGED notController

\* The user closes the tab of live panel p.
UserClosesPanel(p) ==
    /\ panelState[p] = "live"
    /\ Dispose(p)
    /\ UNCHANGED <<workspaceFolder, calls, ctlTrace, opens>>
    /\ UNCHANGED notController

\* The last workspace folder is removed, or a first one is added.
ChangeWorkspaceFolders ==
    /\ workspaceFolder' = ~workspaceFolder
    /\ UNCHANGED <<panel, panelState, calls, ctlTrace, opens>>
    /\ UNCHANGED notController

ControllerNext ==
    \/ open
    \/ \E p \in Panels, d \in Summaries : SubmitMessage(p, d)
    \/ \E c \in Calls : SendResolved(c)
    \/ \E c \in Calls : SendRejected(c)
    \/ \E p \in Panels : CancelMessage(p)
    \/ \E p \in Panels : UserClosesPanel(p)
    \/ ChangeWorkspaceFolders

\* Every component starts as constructed, as in Init.
ControllerSpec == Init /\ [][ControllerNext]_vars

----------------------------------------------------------------------------
\* SpecManager.getSpecList.  specsDir says how the workspace file system
\* answers this call: whether there is a workspace folder, whether stat and
\* readDirectory resolve, which createDirectory (if any) rejects, and the
\* entries readDirectory yields, as [name, type] in listing order.

FileTypes == {"File", "Directory", "SymbolicLink|Directory"}
EntryNames == {"spec1", "spec2"}
Entries == [name : EntryNames, type : FileTypes]
Listings == UNION {[1 .. n -> Entries] : n \in 0 .. MaxEntries}
CreateDirectoryOutcomes == {"ok", "parent rejects", "child rejects"}

\* Faulty variant: symbolic links to directories count as directories.
IsDirectory_FollowLinks(e) == e.type \in {"Directory", "SymbolicLink|Directory"}

\* ([, type]) => type === FileType.Directory
IsDirectory(e) == e.type = "Directory"

\* entries.filter(...).map(([name]) => name)
SpecNames(entries) ==
    LET dirs == SelectSeq(entries, IsDirectory)
    IN [k \in 1 .. Len(dirs) |-> dirs[k].name]

SpecListInit ==
    /\ specsDir \in [workspaceFolder : BOOLEAN, stat : BOOLEAN,
                     createDirectory : CreateDirectoryOutcomes,
                     readDirectory : BOOLEAN, entries : Listings]
    /\ specList = [pc |-> "idle", value |-> <<>>, ops |-> <<>>]
    /\ ProviderInit /\ PathIdle /\ ControllerInit /\ OthersIdle

\* getSpecList up to its first await.
getSpecList ==
    /\ specList.pc = "idle"
    /\ specList' =
          IF ~specsDir.workspaceFolder
          THEN [pc |-> "returned", value |-> <<>>, ops |-> <<>>]
          ELSE [pc |-> "stat", value |-> <<>>, ops |-> <<"stat">>]
    /\ UNCHANGED specsDir
    /\ UNCHANGED notSpecList

\* workspace.fs.stat settled: on success the listing is read, on failure
\* the line is logged and the parent directory is created first.
StatSettled ==
    /\ specList.pc = "stat"
    /\ specList' =
          IF specsDir.stat
          THEN [specList EXCEPT !.pc = "readDirectory",
                                !.ops = @ \o <<"readDirectory">>]
          ELSE [specList EXCEPT !.pc = "createDirectory:parent",
                                !.ops = @ \o <<"appendLine:Creating",
                                               "createDirectory:parent">>]
    /\ UNCHANGED specsDir
    /\ UNCHANGED notSpecList

\* createDirectory(dirname(specsPath)) settled.
CreateParentSettled ==
    /\ specList.pc = "createDirectory:parent"
    /\ specList' =
          IF specsDir.createDirectory = "parent rejects"
          THEN [specList EXCEPT !.pc = "readDirectory",
                                !.ops = @ \o <<"readDirectory">>]
          ELSE [specList EXCEPT !.pc = "createDirectory:child",
                                !.ops = @ \o <<"createDirectory:child">>]
    /\ UNCHANGED specsDir
    /\ UNCHANGED notSpecList

\* createDirectory(specsPath) settled; a rejection is ignored.
CreateChildSettled ==
    /\ specList.pc = "createDirectory:child"
    /\ specList' = [specList EXCEPT !.pc = "readDirectory",
                                    !.ops = @ \o <<"readDirectory">>]
    /\ UNCHANGED specsDir
    /\ UNCHANGED notSpecList

\* readDirectory settled: the directory names, or [] when it rejected.
ReadDirectorySettled ==
    /\ specList.pc = "readDirectory"
    /\ specList' = [specList EXCEPT
          !.pc = "returned",
          !.value = IF specsDir.readDirectory
                    THEN SpecNames(specsDir.entries) ELSE <<>>]
    /\ UNCHANGED specsDir
    /\ UNCHANGED notSpecList

SpecListNext ==
    \/ getSpecList
    \/ StatSettled
    \/ CreateParentSettled
    \/ CreateChildSettled
    \/ ReadDirectorySettled

SpecListSpec == SpecListInit /\ [][SpecListNext]_vars

----------------------------------------------------------------------------
\* Properties of invokeCodexHeadless and createTempFile

Headless(i) == mode[i] = "headless"
Submissions(i) == Count(trace[i], "executeCommand") + Count(trace[i], "sendText")
TookNotificationBranch(i) == Headless(i) /\ execution[i] # 0
TookFallbackBranch(i) == Headless(i) /\ Count(trace[i], "sendText") > 0
HasTimer(i) == \E t \in timers : t.inv = i
HasListener(i) == \E l \in listeners : l.inv = i

\* C1: the promise of a headless invocation is resolved at most once:
\* resolve is never called a second time, by the notification branch, by
\* the fallback branch, or by both.
C1_ResolvedAtMostOnce ==
    \A i \in Inv : Len(resolutions[i]) <= 1

\* One invocation resolved by its completion event and still inside the
\* second before its terminal is disposed (a second delivery of the same
\* event is possible there), another resolved by the fallback timer.
C1_Witness ==
    \E i, j \in Inv :
        /\ TookNotificationBranch(i) /\ pc[i] = "resolved"
        /\ Len(resolutions[i]) = 1
        /\ TookFallbackBranch(j) /\ Len(resolutions[j]) = 1

\* C2: every headless invocation that has created its temp file and its
\* hidden terminal eventually resolves its promise.
C2_EventuallyResolves ==
    \A i \in Inv :
        (Headless(i) /\ terminal[i] # "none") ~> (Len(resolutions[i]) >= 1)

\* An invocation is quiet when it has started and none of its I/O, timers
\* or listeners is pending.
Quiet(i) ==
    /\ pc[i] \notin {"idle", "createDirectory", "writeFile"}
    /\ ~HasTimer(i)
    /\ ~HasListener(i)

\* C3: once all timers and events of an invocation have run, exactly one
\* unlink attempt has been made for each temp file it created, whatever the
\* outcome branch.
C3_OneUnlinkPerTempFile ==
    \A i \in Inv :
        Quiet(i) => Count(trace[i], "unlink") = Count(trace[i], "writeFile")

\* C4: a completion event acts on an invocation only if it carries that
\* invocation's own terminal and execution: an event of another pair leaves
\* the invocation's promise, listener, timers, terminal and trace alone, and
\* its own event resolves it with the exit code the event carries.
C4_NoCrossResolve ==
    [][\A t \in Inv, e \in 0 .. nextExecution - 1, c \in ExitCodes :
          EndTerminalShellExecution(t, e, c) =>
             \A j \in Inv :
                IF t = j /\ [inv |-> j, execution |-> e] \in listeners
                THEN resolutions'[j] = Append(resolutions[j],
                            [exitCode |-> c, output |-> Undefined])
                ELSE /\ resolutions'[j] = resolutions[j]
                     /\ {l \in listeners' : l.inv = j}
                           = {l \in listeners : l.inv = j}
                     /\ {x \in timers' : x.inv = j}
                           = {x \in timers : x.inv = j}
                     /\ terminal'[j] = terminal[j]
                     /\ trace'[j] = trace[j]]_vars

\* Two concurrent headless invocations, each resolved by its own event,
\* with different exit codes.
C4_Witness ==
    \E i, j \in Inv :
        /\ i # j
        /\ TookNotificationBranch(i) /\ TookNotificationBranch(j)
        /\ resolutions[i] = <<[exitCode |-> Code(0), output |-> Undefined]>>
        /\ resolutions[j] = <<[exitCode |-> Code(1), output |-> Undefined]>>

\* C5: a headless invocation submits its command line at most once, through
\* one path; once the poll interval has taken a branch the command has been
\* submitted exactly once and no poll is pending any more.
C5_SubmittedOnce ==
    \A i \in Inv :
        Headless(i) =>
            /\ Submissions(i) <= 1
            /\ pc[i] \in {"executing", "fallbackSent", "resolved", "done"}
                  => /\ Submissions(i) = 1
                     /\ ~\E t \in timers : t.inv = i /\ t.kind = "poll"

\* The capability attaches after the fallback was dispatched.
C5_Witness ==
    \E i \in Inv :
        /\ pc[i] = "fallbackSent"
        /\ shellIntegration[i]
        /\ Count(trace[i], "sendText") = 1

\* C6: a poll that finds the capability issues the command through
\* executeCommand, and the matching completion event resolves the promise
\* with exactly the exit code it carries (zero, non-zero or absent) and
\* output undefined; the invocation does not fail.
C6_ExitCodeVerbatim ==
    [][/\ \A i \in Inv :
             (checkShellIntegration(i) /\ shellIntegration[i]) =>
                /\ Count(trace'[i], "executeCommand") = 1
                /\ Count(trace'[i], "sendText") = 0
       /\ \A i \in Inv, c \in ExitCodes :
             (/\ EndTerminalShellExecution(i, execution[i], c)
              /\ HasListener(i)) =>
                /\ resolutions'[i] = <<[exitCode |-> c, output |-> Undefined]>>
                /\ pc'[i] = "resolved"]_vars

\* A promise resolved by an event that carried no exit code.
C6_Witness ==
    \E i \in Inv :
        /\ TookNotificationBranch(i)
        /\ resolutions[i] = <<[exitCode |-> Undefined, output |-> Undefined]>>

\* C7: when the capability is absent at every poll the command goes through
\* sendText, and the promise resolves with exitCode undefined 5000 ms of
\* timer time after that sendText: not before, not later, never a failure.
C7_FallbackAfterSettleDelay ==
    \A i \in Inv :
        /\ (Headless(i) /\ shellIntegrationChecks[i] > 20)
              => TookFallbackBranch(i)
        /\ TookFallbackBranch(i) =>
            /\ execution[i] = 0
            /\ pc[i] \in {"fallbackSent", "done"}
            /\ pc[i] = "fallbackSent" =>
                  /\ resolutions[i] = <<>>
                  /\ sinceSendText[i] <= 5000
            /\ pc[i] = "done" =>
                  /\ resolutions[i] = <<[exitCode |-> Undefined]>>
                  /\ sinceSendText[i] = 5000

\* A fallback invocation resolved while the capability never attached.
C7_Witness ==
    \E i \in Inv :
        /\ TookFallbackBranch(i)
        /\ ~shellIntegration[i]
        /\ pc[i] = "done"
        /\ Len(resolutions[i]) = 1

\* C8: every terminal created hidden by invokeCodexHeadless is eventually
\* disposed.
C8_HiddenTerminalDisposed ==
    \A i \in Inv :
        (Headless(i) /\ terminal[i] = "open") ~> (terminal[i] = "disposed")

\* C9: any two invocations get distinct temp-file paths, so no write
\* replaces and no unlink removes the file of another invocation.
C9_DistinctTempFiles ==
    /\ \A i, j \in Inv :
          (i # j /\ promptFilePath[i] # <<>> /\ promptFilePath[j] # <<>>)
             => promptFilePath[i] # promptFilePath[j]
    /\ interference = {}

\* In trace s, the first b (if any) comes after the first a.
Precedes(s, a, b) ==
    First(s, b) # 0 => (First(s, a) # 0 /\ First(s, a) < First(s, b))

Submit(i) == IF Count(trace[i], "executeCommand") > 0
             THEN "executeCommand" ELSE "sendText"

\* C10: within one headless invocation the temp file is written before the
\* command is submitted, the command is submitted before the promise
\* resolves, and the promise resolves before terminal.dispose and before
\* the unlink attempt.
C10_HeadlessOrder ==
    \A i \in Inv :
        Headless(i) =>
            /\ Precedes(trace[i], "writeFile", "executeCommand")
            /\ Precedes(trace[i], "writeFile", "sendText")
            /\ Precedes(trace[i], Submit(i), "resolve")
            /\ Precedes(trace[i], "resolve", "terminal.dispose")
            /\ Precedes(trace[i], "resolve", "unlink")

\* Both branches ran to the end: command, resolve, dispose and unlink all
\* happened in one invocation through the event and in one through the
\* fallback timer.
C10_Witness ==
    \E i, j \in Inv :
        /\ TookNotificationBranch(i) /\ pc[i] = "done"
        /\ TookFallbackBranch(j) /\ pc[j] = "done"
        /\ Count(trace[i], "unlink") = 1 /\ Count(trace[j], "unlink") = 1
        /\ terminal[i] = "disposed" /\ terminal[j] = "disposed"

----------------------------------------------------------------------------
\* Failure, cleanup and ordering properties of both invocation modes

SplitView(i) == mode[i] = "split" /\ pc[i] # "idle"
Last(s) == IF s = <<>> THEN "" ELSE s[Len(s)]

\* C11: an invocation whose createDirectory, writeFile or createTerminal
\* failed ends by throwing to its caller; it never submits a command to a
\* terminal and leaves no interval, timer or completion listener pending,
\* no terminal open and no promise resolved.
C11_FailureAborts ==
    \A i \in Inv :
        pc[i] = "failed" =>
            /\ Last(trace[i]) = "throw"
            /\ Count(trace[i], "throw") = 1
            /\ Submissions(i) = 0
            /\ Count(trace[i], "setInterval") = 0
            /\ ~HasTimer(i)
            /\ ~HasListener(i)
            /\ terminal[i] = "none"
            /\ resolutions[i] = <<>>

\* A split-view invocation failed at createTerminal, after its temp file
\* was written, and a headless one failed before writing anything.
C11_Witness ==
    \E i, j \in Inv :
        /\ pc[i] = "failed" /\ mode[i] = "split"
        /\ Count(trace[i], "writeFile") = 1
        /\ pc[j] = "failed" /\ mode[j] = "headless"
        /\ Count(trace[j], "writeFile") = 0

\* C12: every unlink that rejects is logged to the output channel, once,
\* in each of the three cleanup branches; nothing is thrown and the unlink
\* is not attempted again.
C12_UnlinkFailureLogged ==
    \A i \in Inv :
        /\ Count(trace[i], "unlink:rejected")
              = Count(trace[i], "appendLine:failed")
        /\ Count(trace[i], "unlink") <= 1
        /\ Count(trace[i], "unlink") = 1 => Count(trace[i], "throw") = 0

\* C13: no step that resolves the promise of a headless invocation also
\* disposes its terminal or attempts the unlink; both come in a later step.
C13_CleanupAfterResolveDelay ==
    [][\A i \in Inv :
          Len(resolutions'[i]) > Len(resolutions[i]) =>
              /\ terminal'[i] = terminal[i]
              /\ Count(trace'[i], "unlink") = Count(trace[i], "unlink")]_vars

C15_UnlinkAfterSendText ==
    \A i \in Inv :
        SplitView(i) =>
            /\ Precedes(trace[i], "sendText", "unlink")
            /\ Precedes(trace[i], "setTimeout:unlink", "unlink")
            /\ Count(trace[i], "unlink") <= 1
            /\ Precedes(trace[i], "return", "unlink")

\* The removal timer fired after the submission and the file is gone.
C15_Witness ==
    \E i \in Inv :
        /\ SplitView(i) /\ pc[i] = "done"
        /\ Count(trace[i], "sendText") = 1
        /\ Count(trace[i], "unlink") = 1
        /\ First(trace[i], "sendText") < First(trace[i], "unlink")

----------------------------------------------------------------------------
\* Properties of CreateSpecInputController

\* The calls handleSubmit call c made, in order.
OpsOf(c) == calls[c].ops

Posted(op, p) == \E k \in 1 .. Len(ctlTrace) : ctlTrace[k] = Did(op, p, 0)

\* C17: the controller holds at most one panel: a panel is live exactly
\* when it is the one held, open() with a held panel reveals it, posts
\* 'create-spec/focus' and creates nothing, and open() with none held
\* either holds none afterwards or holds a panel that did not exist before.
C17_SinglePanel ==
    /\ [](\A p \in Panels : panelState[p] = "live" <=> panel = p)
    /\ [][open =>
            IF panel # 0
            THEN /\ panel' = panel
                 /\ panelState' = panelState
                 /\ ctlTrace' = ctlTrace \o
                       <<Did("reveal", panel, 0), Did("post:focus", panel, 0)>>
            ELSE panel' # 0 =>
                    /\ panelState[panel'] = "none"
                    /\ panelState' = [panelState EXCEPT ![panel'] = "live"]]_vars

\* The first panel was disposed, a later open() created the second, and an
\* open() on the live second panel posted the focus message.
C17_Witness ==
    /\ panelState[1] = "disposed"
    /\ panelState[2] = "live"
    /\ panel = 2
    /\ Posted("post:focus", 2)

\* C18: a handleSubmit call that got as far as rendering the prompt ends
\* in one of three ways: it rendered, sent, posted 'create-spec/submit:success'
\* to its panel and disposed that panel, in this order; or rendering failed
\* and it posted 'create-spec/submit:error' to its panel; or sending failed
\* and it posted 'create-spec/submit:error' to its panel; in the last two
\* cases without a success message and without disposing the panel.
C18_SubmitOutcome ==
    \A c \in Calls :
        (calls[c].state \in {"done", "threw"}
           /\ \E k \in 1 .. Len(OpsOf(c)) : OpsOf(c)[k] = Did("renderPrompt", 0, c))
        => LET p == calls[c].from
               failed == <<Did("appendLine:Failed to submit spec request", 0, c),
                           Did("post:submit:error", p, c),
                           Did("showErrorMessage:Failed to create spec prompt", 0, c)>>
           IN OpsOf(c) \in
                {<<Did("renderPrompt", 0, c), Did("sendPromptToChat", 0, c),
                   Did("showAutoDismissNotification", 0, c),
                   Did("post:submit:success", p, c), Did("dispose", p, c)>>,
                 <<Did("renderPrompt", 0, c)>> \o failed,
                 <<Did("renderPrompt", 0, c), Did("sendPromptToChat", 0, c)>>
                     \o failed}

AllWhiteSpace(d) == \A k \in 1 .. Len(d.value) : d.value[k] \in WhiteSpace

\* What C19 promises of a step: the only call made is the post of
\* 'Summary is required.' to the panel the message came from, and the
\* panel stays live and held.
BlankSummaryAnswered(p) ==
    /\ \E c \in Calls :
          /\ calls[c].state = "none"
          /\ calls' = [calls EXCEPT ![c] =
                [state |-> "done", from |-> p,
                 ops |-> <<Did("post:submit:error:Summary is required.", p, c)>>]]
    /\ ctlTrace' = ctlTrace
    /\ panelState' = panelState
    /\ panel' = panel

----------------------------------------------------------------------------
\* Properties of SpecManager.getSpecList

\* The names of the entries of type Directory, first to last.
RECURSIVE DirectoryNames(_)
DirectoryNames(entries) ==
    IF entries = <<>> THEN <<>>
    ELSE (IF Head(entries).type = "Directory"
          THEN <<Head(entries).name>> ELSE <<>>)
         \o DirectoryNames(Tail(entries))

\* C20: getSpecList always ends by returning: the names of the Directory
\* entries in listing order when there is a workspace folder and the
\* listing resolves, the empty list otherwise.  It creates the directory
\* (parent first) exactly when stat rejected, and reads the listing after
\* that whether or not the creation worked.
C20_SpecListIsDirectoryNames ==
    /\ specList.pc \in {"idle", "stat", "createDirectory:parent",
                        "createDirectory:child", "readDirectory", "returned"}
    /\ specList.pc = "returned" =>
          /\ specList.value =
                IF specsDir.workspaceFolder /\ specsDir.readDirectory
                THEN DirectoryNames(specsDir.entries)
                ELSE <<>>
          /\ ~specsDir.workspaceFolder => specList.ops = <<>>
          /\ (specsDir.workspaceFolder /\ specsDir.stat) =>
                specList.ops = <<"stat", "readDirectory">>
          /\ (specsDir.workspaceFolder /\ ~specsDir.stat) =>
                /\ SubSeq(specList.ops, 1, 3) =
                      <<"stat", "appendLine:Creating", "createDirectory:parent">>
                /\ specList.ops[Len(specList.ops)] = "readDirectory"
                /\ Count(specList.ops, "readDirectory") = 1

\* stat rejected, the directory was created, and the listing had a
\* non-directory between two directories that are not in name order.
C20_Witness ==
    /\ specList.pc = "returned"
    /\ specsDir.workspaceFolder /\ ~specsDir.stat /\ specsDir.readDirectory
    /\ Count(specList.ops, "createDirectory:child") = 1
    /\ Len(specsDir.entries) = 3
    /\ specsDir.entries[2].type # "Directory"
    /\ specList.value = <<"spec2", "spec1">>

----------------------------------------------------------------------------
\* Properties of the capability poll and of what follows the resolution

HasPollTimer(i) == \E t \in timers : t.inv = i /\ t.kind = "poll"

\* C22: the k-th poll of an invocation runs 100 * k ms of timer time after
\* setInterval and k is at most 21.  A poll that finds the capability takes
\* the notification branch; a poll that does not find it takes the
\* fallback branch when it is the 21st and only re-arms the interval when
\* it is an earlier one.  Once a branch is taken no poll is pending.
C22_PollBounded ==
    /\ [](\A i \in Inv :
            (TookNotificationBranch(i) \/ TookFallbackBranch(i))
               => ~HasPollTimer(i))
    /\ [][\A i \in Inv :
            checkShellIntegration(i) =>
                LET k == shellIntegrationChecks[i] + 1 IN
                /\ k <= 21
                /\ sinceSetInterval[i] = 100 * k
                /\ shellIntegration[i] =>
                      /\ execution'[i] # 0
                      /\ Count(trace'[i], "executeCommand") = 1
                      /\ Count(trace'[i], "sendText") = 0
                      /\ ~HasPollTimer(i)'
                /\ (~shellIntegration[i] /\ k = 21) =>
                      /\ Count(trace'[i], "sendText") = 1
                      /\ execution'[i] = 0
                      /\ ~HasPollTimer(i)'
                /\ (~shellIntegration[i] /\ k < 21) =>
                      /\ trace'[i] = trace[i]
                      /\ pc'[i] = "waitingForCapability"
                      /\ HasPollTimer(i)'
                      /\ \A t \in timers' :
                            (t.inv = i /\ t.kind = "poll") => t.left = 100]_vars

\* One invocation went to the fallback at its 21st poll and another took
\* the notification branch.
C22_Witness ==
    \E i, j \in Inv :
        /\ TookFallbackBranch(i)
        /\ shellIntegrationChecks[i] = 21
        /\ pc[i] = "fallbackSent"
        /\ TookNotificationBranch(j)
        /\ pc[j] = "executing"

\* C23: a headless invocation that has resolved has no poll pending and no
\* listener subscribed; its listener, if it registered one, was disposed
\* once; and a completion event for its terminal delivered after the
\* resolution changes nothing.
C23_NothingAfterResolution ==
    /\ [](\A i \in Inv :
            (Headless(i) /\ Len(resolutions[i]) >= 1) =>
                /\ ~HasPollTimer(i)
                /\ ~HasListener(i)
                /\ Count(trace[i], "disposable.dispose") =
                      Count(trace[i], "onDidEndTerminalShellExecution")
                /\ Count(trace[i], "disposable.dispose") <= 1)
    /\ [][\A t \in Inv, e \in 0 .. nextExecution - 1, c \in ExitCodes :
            (EndTerminalShellExecution(t, e, c) /\ Len(resolutions[t]) >= 1)
               => /\ resolutions'[t] = resolutions[t]
                  /\ trace'[t] = trace[t]
                  /\ pc'[t] = pc[t]
                  /\ timers' = timers
                  /\ listeners' = listeners]_vars

\* Resolved through the event, the terminal still open for its last
\* second, the listener disposed.
C23_Witness ==
    \E i \in Inv :
        /\ TookNotificationBranch(i)
        /\ pc[i] = "resolved"
        /\ terminal[i] = "open"
        /\ Count(trace[i], "disposable.dispose") = 1
        /\ ~HasListener(i)

----------------------------------------------------------------------------
\* Answers of CreateSpecInputController.handleSubmit

SubmitAnswers ==
    {"post:submit:success", "post:submit:error",
     "post:submit:error:Summary is required."}

\* How many 'create-spec/submit:success' or 'create-spec/submit:error'
\* messages handleSubmit call c has posted.
Answers(c) ==
    Cardinality({k \in 1 .. Len(OpsOf(c)) : OpsOf(c)[k].op \in SubmitAnswers})

\* C26: every handleSubmit call that has ended has posted exactly one
\* answer, 'create-spec/submit:success' or 'create-spec/submit:error', to
\* the panel its message came from.
C26_EverySubmitAnswered ==
    \A c \in Calls :
        calls[c].state \in {"done", "threw"} =>
            /\ Answers(c) = 1
            /\ \A k \in 1 .. Len(OpsOf(c)) :
                  OpsOf(c)[k].op \in SubmitAnswers =>
                      OpsOf(c)[k].panel = calls[c].from

\* C27: no handleSubmit call ends with an exception escaping it.
C27_NoEscapingException ==
    \A c \in Calls : calls[c].state # "threw"

----------------------------------------------------------------------------
\* SpecManager.delete

\* What `${error}` gives for the errors workspace.fs.delete rejects with.
DeleteErrors == {"Error: Deletion failed", "EntryNotFound (FileSystemError)"}

Msg(op, text) == [op |-> op, text |-> text]

\* The catch block of delete.
DeleteCatchOps_NoMessage(error) ==
    <<Msg("appendLine", <<"[SpecManager] Failed to delete spec: ", error>>)>>

DeleteCatchOps(error) ==
    <<Msg("appendLine", <<"[SpecManager] Failed to delete spec: ", error>>),
      Msg("showErrorMessage", <<"Failed to delete spec: ", error>>)>>

DeletedNotification(specName) ==
    Msg("showAutoDismissNotification",
        <<"Spec \"", specName, "\" deleted successfully">>)

\* delete(specName) up to its first await.
delete(d, specName) ==
    /\ deletes[d].pc = "none"
    /\ \A e \in 1 .. d - 1 : deletes[e].pc # "none"
    /\ deletes' =
          IF ~specManager.workspaceFolder
            THEN [deletes EXCEPT ![d] =
                    [pc |-> "returned", specName |-> specName, error |-> "",
                     ops |-> <<Msg("showErrorMessage",
                                   <<"No workspace folder open">>)>>]]
            ELSE [deletes EXCEPT ![d] =
                    [pc |-> "awaitDelete", specName |-> specName,
                     error |-> "",
                     ops |-> <<Msg("fs.delete", <<specName>>)>>]]
    /\ UNCHANGED specManager
    /\ UNCHANGED notDelete

\* workspace.fs.delete resolves: the folder is gone; the success
\* notification is shown and awaited.
FsDeleteResolved(d) ==
    /\ deletes[d].pc = "awaitDelete"
    /\ deletes[d].specName \in specManager.folders
    /\ specManager' = [specManager EXCEPT
                          !.folders = @ \ {deletes[d].specName}]
    /\ deletes' = [deletes EXCEPT
                      ![d].pc = "awaitNotification",
                      ![d].ops = @ \o <<DeletedNotification(deletes[d].specName)>>]
    /\ UNCHANGED notDelete

\* workspace.fs.delete rejects: the catch block runs and delete returns.
FsDeleteRejected(d, error) ==
    /\ deletes[d].pc = "awaitDelete"
    /\ deletes' = [deletes EXCEPT
                      ![d].pc = "returned",
                      ![d].error = error,
                      ![d].ops = @ \o DeleteCatchOps(error)]
    /\ UNCHANGED specManager
    /\ UNCHANGED notDelete

\* The success notification has been dismissed: delete returns.
DeletedNotificationSettled(d) ==
    /\ deletes[d].pc = "awaitNotification"
    /\ deletes' = [deletes EXCEPT ![d].pc = "returned"]
    /\ UNCHANGED specManager
    /\ UNCHANGED notDelete

\* The user closes or opens the workspace folder.
ChangeSpecWorkspace ==
    /\ specManager' = [specManager EXCEPT !.workspaceFolder = ~@]
    /\ UNCHANGED deletes
    /\ UNCHANGED notDelete

DeleteNext ==
    \/ \E d \in Deletes, specName \in SpecFolders : delete(d, specName)
    \/ \E d \in Deletes : FsDeleteResolved(d)
    \/ \E d \in Deletes, error \in DeleteErrors : FsDeleteRejected(d, error)
    \/ \E d \in Deletes : DeletedNotificationSettled(d)
    \/ ChangeSpecWorkspace

DeleteSpec == Init /\ [][DeleteNext]_vars

\* C21: a delete call whose workspace.fs.delete rejected has returned,
\* having written '[SpecManager] Failed to delete spec: <error>' to the
\* output channel and then shown 'Failed to delete spec: <error>', and
\* having shown no success notification; the spec folder is still there
\* unless another call removed it.
C21_DeleteFailureReported ==
    \A d \in Deletes :
        deletes[d].error # "" =>
            /\ deletes[d].pc = "returned"
            /\ deletes[d].ops =
                  <<Msg("fs.delete", <<deletes[d].specName>>),
                    Msg("appendLine", <<"[SpecManager] Failed to delete spec: ",
                                        deletes[d].error>>),
                    Msg("showErrorMessage", <<"Failed to delete spec: ",
                                              deletes[d].error>>)>>
            /\ \A k \in 1 .. Len(deletes[d].ops) :
                  deletes[d].ops[k].op # "showAutoDismissNotification"

C21_Witness ==
    \E d \in Deletes :
        /\ deletes[d].error = "Error: Deletion failed"
        /\ deletes[d].specName = "spec-to-delete"
        /\ deletes[d].pc = "returned"

----------------------------------------------------------------------------
\* SteeringManager.delete

\* renderPrompt throws when the template cannot be rendered.
RenderErrors == {"Error: Prompt not found: delete-steering"}

\* invokeCodexHeadless rejects when its prompt file cannot be written.
HeadlessErrors == {"Error: ENOSPC"}

\* The catch block of delete: what it logs and what it returns.
SteeringCatch(error) ==
    [ops |-> <<Msg("appendLine", <<"[Steering] ",
                                  "Failed to delete steering document: ",
                                  error>>)>>,
     result |-> [success |-> FALSE,
                 error |-> <<"Failed to delete steering document: ", error>>]]

\* What delete does with the result of invokeCodexHeadless: the next
\* position, what is logged or shown, and the value returned.
HeadlessOutcome_UnknownFails(documentName, exitCode) ==
    IF exitCode = Code(0)
      THEN [pc |-> "awaitSuccessNotification",
            ops |-> <<Msg("showAutoDismissNotification",
                          <<"Steering document \"", documentName,
                            "\" deleted and AGENTS.md.md updated successfully.">>)>>,
            result |-> NoResult]
      ELSE [pc |-> "returned",
            ops |-> <<Msg("appendLine",
                          <<"[Steering] ",
                            "Failed to update AGENTS.md.md. Exit code: ",
                            exitCode.value>>)>>,
            result |-> [success |-> FALSE,
                        error |-> <<"Failed to update AGENTS.md.md. Exit code: ",
                                    exitCode.value>>]]

HeadlessOutcome(documentName, exitCode) ==
    IF exitCode = Code(0)
      THEN [pc |-> "awaitSuccessNotification",
            ops |-> <<Msg("showAutoDismissNotification",
                          <<"Steering document \"", documentName,
                            "\" deleted and AGENTS.md.md updated successfully.">>)>>,
            result |-> NoResult]
      ELSE IF exitCode.defined
      THEN [pc |-> "returned",
            ops |-> <<Msg("appendLine",
                          <<"[Steering] ",
                            "Failed to update AGENTS.md.md. Exit code: ",
                            exitCode.value>>)>>,
            result |-> [success |-> FALSE,
                        error |-> <<"Failed to update AGENTS.md.md. Exit code: ",
                                    exitCode.value>>]]
      ELSE [pc |-> "returned", ops |-> <<>>,
            result |-> [success |-> TRUE, error |-> <<>>]]

\* delete(documentName, documentPath) up to its first await.
steeringDelete(d, documentName) ==
    /\ steeringDeletes[d].pc = "none"
    /\ \A e \in 1 .. d - 1 : steeringDeletes[e].pc # "none"
    /\ steeringDeletes' = [steeringDeletes EXCEPT
          ![d].pc = "awaitDelete",
          ![d].documentName = documentName,
          ![d].ops = <<Msg("fs.delete", <<documentName>>)>>]
    /\ UNCHANGED steeringFiles
    /\ UNCHANGED notSteering

\* workspace.fs.delete resolves: the file is gone; the prompt is rendered
\* and the progress notification is shown and awaited.
SteeringFsDeleteResolved(d) ==
    /\ steeringDeletes[d].pc = "awaitDelete"
    /\ steeringDeletes[d].documentName \in steeringFiles
    /\ steeringFiles' = steeringFiles \ {steeringDeletes[d].documentName}
    /\ steeringDeletes' = [steeringDeletes EXCEPT
          ![d].pc = "awaitProgressNotification",
          ![d].fsDelete = "resolved",
          ![d].ops = @ \o
              <<Msg("renderPrompt", <<"delete-steering">>),
                Msg("showAutoDismissNotification",
                    <<"Deleting \"", steeringDeletes[d].documentName,
                      "\" and updating AGENTS.md.md...">>)>>]
    /\ UNCHANGED notSteering

\* workspace.fs.delete resolves and renderPrompt throws.
RenderPromptThrows(d, error) ==
    /\ steeringDeletes[d].pc = "awaitDelete"
    /\ steeringDeletes[d].documentName \in steeringFiles
    /\ steeringFiles' = steeringFiles \ {steeringDeletes[d].documentName}
    /\ steeringDeletes' = [steeringDeletes EXCEPT
          ![d].pc = "returned",
          ![d].fsDelete = "resolved",
          ![d].ops = @ \o <<Msg("renderPrompt", <<"delete-steering">>)>>
                       \o SteeringCatch(error).ops,
          ![d].result = SteeringCatch(error).result]
    /\ UNCHANGED notSteering

\* workspace.fs.delete rejects.
SteeringFsDeleteRejected(d, error) ==
    /\ steeringDeletes[d].pc = "awaitDelete"
    /\ steeringDeletes' = [steeringDeletes EXCEPT
          ![d].pc = "returned",
          ![d].fsDelete = "rejected",
          ![d].ops = @ \o SteeringCatch(error).ops,
          ![d].result = SteeringCatch(error).result]
    /\ UNCHANGED steeringFiles
    /\ UNCHANGED notSteering

\* The progress notification has been dismissed: invokeCodexHeadless is
\* called and awaited.
ProgressNotificationSettled(d) ==
    /\ steeringDeletes[d].pc = "awaitProgressNotification"
    /\ steeringDeletes' = [steeringDeletes EXCEPT
          ![d].pc = "awaitHeadless",
          ![d].headless = "started",
          ![d].ops = @ \o <<Msg("invokeCodexHeadless", <<"delete-steering">>)>>]
    /\ UNCHANGED steeringFiles
    /\ UNCHANGED notSteering

\* invokeCodexHeadless resolves with { exitCode, output: undefined }.
HeadlessResolved(d, exitCode) ==
    /\ steeringDeletes[d].pc = "awaitHeadless"
    /\ LET o == HeadlessOutcome(steeringDeletes[d].documentName, exitCode)
       IN steeringDeletes' = [steeringDeletes EXCEPT
             ![d].pc = o.pc,
             ![d].headless = "resolved",
             ![d].exitCode = exitCode,
             ![d].ops = @ \o o.ops,
             ![d].result = o.result]
    /\ UNCHANGED steeringFiles
    /\ UNCHANGED notSteering

\* invokeCodexHeadless rejects.
HeadlessRejected(d, error) ==
    /\ steeringDeletes[d].pc = "awaitHeadless"
    /\ steeringDeletes' = [steeringDeletes EXCEPT
          ![d].pc = "returned",
          ![d].headless = "rejected",
          ![d].ops = @ \o SteeringCatch(error).ops,
          ![d].result = SteeringCatch(error).result]
    /\ UNCHANGED steeringFiles
    /\ UNCHANGED notSteering

\* The success notification has been dismissed: delete returns.
SuccessNotificationSettled(d) ==
    /\ steeringDeletes[d].pc = "awaitSuccessNotification"
    /\ steeringDeletes' = [steeringDeletes EXCEPT
          ![d].pc = "returned",
          ![d].result = [success |-> TRUE, error |-> <<>>]]
    /\ UNCHANGED steeringFiles
    /\ UNCHANGED notSteering

SteeringNext ==
    \/ \E d \in SteeringDeletes, documentName \in SteeringDocuments :
          steeringDelete(d, documentName)
    \/ \E d \in SteeringDeletes : SteeringFsDeleteResolved(d)
    \/ \E d \in SteeringDeletes, error \in RenderErrors :
          RenderPromptThrows(d, error)
    \/ \E d \in SteeringDeletes, error \in DeleteErrors :
          SteeringFsDeleteRejected(d, error)
    \/ \E d \in SteeringDeletes : ProgressNotificationSettled(d)
    \/ \E d \in SteeringDeletes, exitCode \in ExitCodes :
          HeadlessResolved(d, exitCode)
    \/ \E d \in SteeringDeletes, error \in HeadlessErrors :
          HeadlessRejected(d, error)
    \/ \E d \in SteeringDeletes : SuccessNotificationSettled(d)

SteeringSpec == Init /\ [][SteeringNext]_vars

\* C24: a returned SteeringManager.delete call whose headless invocation
\* resolved gives {success: true} for exit code 0, {success: false} with
\* the error 'Failed to update AGENTS.md.md. Exit code: <code>' for a
\* defined non-zero exit code, and {success: true} for an undefined exit
\* code; a call whose file delete rejected never started the headless
\* invocation and gives {success: false}; whenever the headless invocation
\* has been started the file delete had resolved and the file is not on
\* disk, also after the invocation failed.
C24_SteeringDeleteResult ==
    \A d \in SteeringDeletes :
        LET c == steeringDeletes[d]
        IN /\ (c.pc = "returned" /\ c.headless = "resolved") =>
                 /\ c.exitCode = Code(0) =>
                       c.result = [success |-> TRUE, error |-> <<>>]
                 /\ (c.exitCode.defined /\ c.exitCode.value # 0) =>
                       c.result =
                          [success |-> FALSE,
                           error |-> <<"Failed to update AGENTS.md.md. Exit code: ",
                                       c.exitCode.value>>]
                 /\ ~c.exitCode.defined =>
                       c.result = [success |-> TRUE, error |-> <<>>]
           /\ c.fsDelete = "rejected" =>
                 /\ c.pc = "returned"
                 /\ c.headless = "notStarted"
                 /\ \A k \in 1 .. Len(c.ops) : c.ops[k].op # "invokeCodexHeadless"
                 /\ ~c.result.success
           /\ c.headless # "notStarted" =>
                 /\ c.fsDelete = "resolved"
                 /\ c.documentName \notin steeringFiles
                 /\ c.ops[1] = Msg("fs.delete", <<c.documentName>>)

C24_Witness ==
    \E d, e \in SteeringDeletes :
        /\ steeringDeletes[d].pc = "returned"
        /\ steeringDeletes[d].headless = "resolved"
        /\ steeringDeletes[d].exitCode = Code(1)
        /\ ~steeringDeletes[d].result.success
        /\ steeringDeletes[e].pc = "returned"
        /\ steeringDeletes[e].headless = "resolved"
        /\ steeringDeletes[e].exitCode = Undefined
        /\ steeringDeletes[e].result.success

----------------------------------------------------------------------------
\* SpecManager.setupSpecFolderWatcher

\* What workspace.fs.stat(uri) of a created path gives.
StatOutcomes == {"Directory", "File", "rejects"}

\* disposeWatcher(disposable, watcher) followed by disposed = true.
DisposeAndMark(w) ==
    [w EXCEPT !.subscribed = FALSE,
              !.disposeWatcher = @ + 1,
              !.disposed = TRUE]

\* setupSpecFolderWatcher: the watcher is created, the create handler is
\* subscribed and the 60 second timeout is set.
setupSpecFolderWatcher ==
    /\ watcher.pc = "none"
    /\ watcher' = [watcher EXCEPT !.pc = "watching",
                                  !.subscribed = TRUE,
                                  !.timeout = "pending"]
    /\ UNCHANGED handlers
    /\ UNCHANGED notWatcher

\* A path is created under the specs directory: the subscribed handler
\* runs up to its first await.
onDidCreate(h) ==
    /\ watcher.subscribed
    /\ handlers[h] = "none"
    /\ \A g \in 1 .. h - 1 : handlers[g] # "none"
    /\ handlers' = [handlers EXCEPT
                       ![h] = IF watcher.disposed THEN "done" ELSE "awaitStat"]
    /\ UNCHANGED watcher
    /\ UNCHANGED notWatcher

\* workspace.fs.stat settles: a directory leads on to renameTerminal, which
\* is awaited; anything else ends the handler.
CreateStatSettled(h, outcome) ==
    /\ handlers[h] = "awaitStat"
    /\ handlers' = [handlers EXCEPT
                       ![h] = IF outcome = "Directory" THEN "awaitRename"
                              ELSE "done"]
    /\ UNCHANGED watcher
    /\ UNCHANGED notWatcher

\* renameTerminal settles: resolved, the terminal carries the new name;
\* rejected, the failure is logged.  Either way the handler disposes the
\* watcher and sets the flag.
RenameTerminalSettled(h, ok) ==
    /\ handlers[h] = "awaitRename"
    /\ handlers' = [handlers EXCEPT ![h] = "done"]
    /\ watcher' = DisposeAndMark(
                      [watcher EXCEPT
                          !.renamed = IF ok THEN @ + 1 ELSE @])
    /\ UNCHANGED notWatcher

\* The 60 second timeout fires.
WatcherTimeout ==
    /\ watcher.timeout = "pending"
    /\ watcher' = IF ~watcher.disposed
                    THEN [DisposeAndMark(watcher) EXCEPT !.timeout = "fired"]
                    ELSE [watcher EXCEPT !.timeout = "fired"]
    /\ UNCHANGED handlers
    /\ UNCHANGED notWatcher

WatcherNext ==
    \/ setupSpecFolderWatcher
    \/ \E h \in CreateEvents : onDidCreate(h)
    \/ \E h \in CreateEvents, outcome \in StatOutcomes :
          CreateStatSettled(h, outcome)
    \/ \E h \in CreateEvents, ok \in BOOLEAN : RenameTerminalSettled(h, ok)
    \/ WatcherTimeout

WatcherSpec == Init /\ [][WatcherNext]_vars

\* C25: for one create call disposeWatcher runs at most once, and exactly
\* once when the timeout has fired and no handler is under way, and the
\* terminal is renamed at most once.
C25_DisposedOnceRenamedOnce ==
    /\ watcher.disposeWatcher <= 1
    /\ watcher.renamed <= 1
    /\ (watcher.timeout = "fired"
           /\ \A h \in CreateEvents : handlers[h] \in {"none", "done"}) =>
          watcher.disposeWatcher = 1

----------------------------------------------------------------------------
\* PromptsExplorerProvider

\* Time passes in thirds of the refresh delay.
RefreshStep == RefreshDelayMs \div 3

\* changeEmitter.fire(): the view is told to ask for its children again.
FireWith(loading) == IF loading THEN "loading" ELSE "loaded"

\* The callback of the refresh timer: what it assigns to isLoading and
\* whether it fires the change event.
RefreshCallback_NoFire == [isLoading |-> FALSE, fire |-> FALSE]

RefreshCallback == [isLoading |-> FALSE, fire |-> TRUE]

\* refresh()
refresh ==
    /\ refreshCalls < MaxRefreshes
    /\ refreshCalls' = refreshCalls + 1
    /\ isLoading' = TRUE
    /\ lastFired' = FireWith(TRUE)
    /\ viewPending' = TRUE
    /\ overlapped' = (overlapped \/ refreshTimers # <<>>)
    /\ refreshTimers' = Append(refreshTimers, RefreshDelayMs)
    /\ UNCHANGED <<children, promptsRoot, promptFiles>>
    /\ UNCHANGED notPrompts

\* The callback of the oldest refresh timer runs.
RefreshTimerFires ==
    /\ refreshTimers # <<>>
    /\ Head(refreshTimers) = 0
    /\ refreshTimers' = Tail(refreshTimers)
    /\ isLoading' = RefreshCallback.isLoading
    /\ lastFired' = IF RefreshCallback.fire
                      THEN FireWith(RefreshCallback.isLoading)
                      ELSE lastFired
    /\ viewPending' = (viewPending \/ RefreshCallback.fire)
    /\ UNCHANGED <<refreshCalls, overlapped, children, promptsRoot, promptFiles>>
    /\ UNCHANGED notPrompts

\* Time passes while refresh timers are pending; no due timer is passed
\* over.
RefreshTimePasses ==
    /\ refreshTimers # <<>>
    /\ \A k \in 1 .. Len(refreshTimers) : refreshTimers[k] >= RefreshStep
    /\ refreshTimers' = [k \in 1 .. Len(refreshTimers) |->
                            refreshTimers[k] - RefreshStep]
    /\ UNCHANGED <<isLoading, refreshCalls, overlapped, lastFired, children,
                   viewPending, promptsRoot, promptFiles>>
    /\ UNCHANGED notPrompts

\* getChildren() without an element, as the view calls it.
getChildren ==
    /\ children' = IF ~promptsRoot THEN "Open a workspace to manage prompts"
                   ELSE IF isLoading THEN "Loading prompts..."
                   ELSE IF ~promptFiles THEN "No prompts found"
                   ELSE "prompts"
    /\ viewPending' = FALSE
    /\ UNCHANGED <<isLoading, refreshTimers, refreshCalls, overlapped,
                   lastFired, promptsRoot, promptFiles>>
    /\ UNCHANGED notPrompts

\* The workspace is opened or closed; the view is not told.
ChangePromptsRoot ==
    /\ promptsRoot' = ~promptsRoot
    /\ UNCHANGED <<isLoading, refreshTimers, refreshCalls, overlapped,
                   lastFired, children, viewPending, promptFiles>>
    /\ UNCHANGED notPrompts

\* Prompt files are created or removed; the view is not told.
ChangePromptFiles ==
    /\ promptFiles' = ~promptFiles
    /\ UNCHANGED <<isLoading, refreshTimers, refreshCalls, overlapped,
                   lastFired, children, viewPending, promptsRoot>>
    /\ UNCHANGED notPrompts

PromptsNext ==
    \/ refresh
    \/ RefreshTimerFires
    \/ RefreshTimePasses
    \/ getChildren
    \/ ChangePromptsRoot
    \/ ChangePromptFiles

PromptsSpec == Init /\ [][PromptsNext]_vars

\* C28: after refresh() calls, overlapping or not, once every refresh timer
\* has fired isLoading is false and the last tree-change event was fired
\* with isLoading false; once the view has answered that event, what it
\* shows is not the 'Loading prompts...' placeholder.
C28_LoadingEnds ==
    (refreshCalls > 0 /\ refreshTimers = <<>>) =>
        /\ ~isLoading
        /\ lastFired = "loaded"
        /\ ~viewPending => children # "Loading prompts..."

C28_Witness ==
    /\ refreshCalls = MaxRefreshes
    /\ overlapped
    /\ refreshTimers = <<>>
    /\ ~viewPending
    /\ children = "prompts"

====
